---- MODULE Spec2Model ----
(***************************************************************************)
(* Model of ipinfo.handler.Handler: the cache-or-network lookup of         *)
(* _requestDetails and the in-place enrichment of getDetails.              *)
(*                                                                         *)
(* JSON values are tagged records, strings are sequences of one-character  *)
(* strings (so that str.split can be computed), dicts are functions from   *)
(* field names to values.                                                  *)
(***************************************************************************)
EXTENDS Integers, Sequences, FiniteSets, TLC

VARIABLES
    cache,        \* self.cache: [map, lru, fifo]
    fetched,      \* history: for each cached key, the body response.json() gave when it was stored
    last,         \* history: what the most recent getDetails call did and returned
    countries,    \* self.countries
    raw_details,  \* the mapping handed to the enrichment of getDetails (enrichment-only behaviours)
    details       \* what that enrichment returned or raised

vars == <<cache, fetched, last, countries, raw_details, details>>

(***************************************************************************)
(* Bounds                                                                  *)
(***************************************************************************)
\* capacity of the cache the Handler is constructed with
MaxSize == 2
\* longest loc string drawn for the enrichment-only behaviours
MaxLen == 4

(***************************************************************************)
(* Python values                                                           *)
(***************************************************************************)
None == [t |-> "none"]
Str(s) == [t |-> "str", v |-> s]
Num(n) == [t |-> "num", n |-> n]
\* a JSON array with len elements (a nested structure; unhashable, has no split)
List(len) == [t |-> "list", len |-> len]

\* bool(v)
Truthy(v) ==
    CASE v.t = "none" -> FALSE
      [] v.t = "str"  -> v.v # <<>>
      [] v.t = "num"  -> v.n # 0
      [] v.t = "list" -> v.len # 0

\* hash(v) succeeds
Hashable(v) == v.t # "list"

EmptyDict == [f \in {} |-> None]

\* d.get(f)
DictGet(d, f) == IF f \in DOMAIN d THEN d[f] ELSE None

\* d[f] = v
DictSet(d, f, v) == [g \in DOMAIN d \cup {f} |-> IF g = f THEN v ELSE d[g]]

\* s.split(sep) for a one-character sep
RECURSIVE Split(_, _)
Split(s, sep) ==
    IF \A i \in 1..Len(s) : s[i] # sep
    THEN <<s>>
    ELSE LET i == CHOOSE j \in 1..Len(s) :
                      s[j] = sep /\ \A h \in 1..(j - 1) : s[h] # sep
         IN  <<SubSeq(s, 1, i - 1)>> \o Split(SubSeq(s, i + 1, Len(s)), sep)

(***************************************************************************)
(* Handler._read_coords and the enrichment of Handler.getDetails           *)
(***************************************************************************)
\* _read_coords(location): [raised, lat, lon]; raised is the AttributeError of
\* calling split on a truthy value that is not a string.
_read_coords(location) ==
    IF ~Truthy(location)
    THEN [raised |-> FALSE, lat |-> None, lon |-> None]
    ELSE IF location.t # "str"
    THEN [raised |-> TRUE, lat |-> None, lon |-> None]
    ELSE LET coords == Split(location.v, ",")
         IN  IF Len(coords) = 2 /\ coords[1] # <<>> /\ coords[2] # <<>>
             THEN [raised |-> FALSE, lat |-> Str(coords[1]), lon |-> Str(coords[2])]
             ELSE [raised |-> FALSE, lat |-> None, lon |-> None]

\* country_name with the code itself as the default of the lookup:
\* self.countries.get(code, code)
country_name_DefaultsToCode(raw, table) ==
    LET code == DictGet(raw, "country")
    IN  IF ~Hashable(code)
        THEN [raised |-> TRUE, name |-> None]
        ELSE [raised |-> FALSE,
              name |-> IF code \in DOMAIN table THEN table[code] ELSE code]

\* self.countries.get(raw_details.get("country")): [raised, name]; raised is the
\* TypeError of looking up an unhashable key.
country_name(raw, table) ==
    LET code == DictGet(raw, "country")
    IN  IF ~Hashable(code)
        THEN [raised |-> TRUE, name |-> None]
        ELSE [raised |-> FALSE,
              name |-> IF code \in DOMAIN table THEN table[code] ELSE None]

\* enrich with the country name assigned to raw_details["country"]
enrich_OverwritesCountry(raw, table) ==
    LET cn == country_name(raw, table)
    IN  IF cn.raised
        THEN [dict |-> raw, err |-> "TypeError"]
        ELSE LET d1 == DictSet(raw, "country", cn.name)
                 c  == _read_coords(DictGet(d1, "loc"))
             IN  IF c.raised
                 THEN [dict |-> d1, err |-> "AttributeError"]
                 ELSE [dict |-> DictSet(DictSet(d1, "latitude", c.lat),
                                        "longitude", c.lon),
                       err  |-> "none"]

\* enrich with the first coordinate assigned to raw_details["loc"]
enrich_SplitsIntoLoc(raw, table) ==
    LET cn == country_name(raw, table)
    IN  IF cn.raised
        THEN [dict |-> raw, err |-> "TypeError"]
        ELSE LET d1 == DictSet(raw, "country_name", cn.name)
                 c  == _read_coords(DictGet(d1, "loc"))
             IN  IF c.raised
                 THEN [dict |-> d1, err |-> "AttributeError"]
                 ELSE [dict |-> DictSet(DictSet(d1, "loc", c.lat),
                                        "longitude", c.lon),
                       err  |-> "none"]

\* The body of getDetails after _requestDetails: the three item assignments on
\* raw_details, in order, and Details(raw_details). dict is raw_details as the
\* statements leave it (also when one of them raises), err the exception.
enrich(raw, table) ==
    LET cn == country_name(raw, table)
    IN  IF cn.raised
        THEN [dict |-> raw, err |-> "TypeError"]
        ELSE LET d1 == DictSet(raw, "country_name", cn.name)
                 c  == _read_coords(DictGet(d1, "loc"))
             IN  IF c.raised
                 THEN [dict |-> d1, err |-> "AttributeError"]
                 ELSE [dict |-> DictSet(DictSet(d1, "latitude", c.lat),
                                        "longitude", c.lon),
                       err  |-> "none"]

(***************************************************************************)
(* The cache: membership test, get, set; at most MaxSize entries, the      *)
(* least recently used one discarded on insert; entries expire in the      *)
(* order they were inserted.                                               *)
(***************************************************************************)
Remove(seq, k) == SelectSeq(seq, LAMBDA x : x # k)

EmptyCache == [map |-> [k \in {} |-> EmptyDict], lru |-> <<>>, fifo |-> <<>>]

\* key in cache
Contains(c, k) == k \in DOMAIN c.map

\* the cache without k
Drop(c, k) ==
    [map  |-> [j \in DOMAIN c.map \ {k} |-> c.map[j]],
     lru  |-> Remove(c.lru, k),
     fifo |-> Remove(c.fifo, k)]

\* cache[k] = v
SetItem(c, k, v) ==
    LET room == IF ~Contains(c, k) /\ Cardinality(DOMAIN c.map) >= MaxSize
                THEN Drop(c, Head(c.lru))
                ELSE c
    IN  [map  |-> [j \in DOMAIN room.map \cup {k} |->
                      IF j = k THEN v ELSE room.map[j]],
         lru  |-> Append(Remove(room.lru, k), k),
         fifo |-> Append(Remove(room.fifo, k), k)]

\* the cache after cache[k] was read: k is now the most recently used
GetItem(c, k) == [c EXCEPT !.lru = Append(Remove(c.lru, k), k)]

(***************************************************************************)
(* Handler._requestDetails                                                 *)
(***************************************************************************)
\* StatusError without the call of response.raise_for_status()
StatusError_NoRaiseForStatus(status) ==
    IF status = 429 THEN "RequestQuotaExceededError" ELSE "none"

\* the status check, then response.raise_for_status()
StatusError(status) ==
    IF status = 429 THEN "RequestQuotaExceededError"
    ELSE IF status >= 400 /\ status < 600 THEN "HTTPError"
    ELSE "none"

\* _requestDetails that asks the cache only when an address is given:
\* if not ip_address or ip_address not in self.cache
_requestDetails_NoCacheForSelf(c, ip_address, response) ==
    IF ~Truthy(ip_address) \/ ~Contains(c, ip_address)
    THEN IF response.fail
         THEN [cache |-> c, ref |-> ip_address, raw |-> EmptyDict,
               err |-> "ConnectionError", sent |-> 1, status |-> 0]
         ELSE IF StatusError(response.status) # "none"
         THEN [cache |-> c, ref |-> ip_address, raw |-> EmptyDict,
               err |-> StatusError(response.status),
               sent |-> 1, status |-> response.status]
         ELSE LET c1 == SetItem(c, ip_address, response.body)
              IN  [cache |-> GetItem(c1, ip_address), ref |-> ip_address,
                   raw |-> c1.map[ip_address],
                   err |-> "none", sent |-> 1, status |-> response.status]
    ELSE [cache |-> GetItem(c, ip_address), ref |-> ip_address,
          raw |-> c.map[ip_address],
          err |-> "none", sent |-> 0, status |-> 0]

\* _requestDetails that stores response.json() before it looks at the status
_requestDetails_StoreBeforeCheck(c, ip_address, response) ==
    IF ~Contains(c, ip_address)
    THEN IF response.fail
         THEN [cache |-> c, ref |-> ip_address, raw |-> EmptyDict,
               err |-> "ConnectionError", sent |-> 1, status |-> 0]
         ELSE LET c1 == SetItem(c, ip_address, response.body)
              IN  IF StatusError(response.status) # "none"
                  THEN [cache |-> c1, ref |-> ip_address, raw |-> EmptyDict,
                        err |-> StatusError(response.status),
                        sent |-> 1, status |-> response.status]
                  ELSE [cache |-> GetItem(c1, ip_address), ref |-> ip_address,
                        raw |-> c1.map[ip_address],
                        err |-> "none", sent |-> 1, status |-> response.status]
    ELSE [cache |-> GetItem(c, ip_address), ref |-> ip_address,
          raw |-> c.map[ip_address],
          err |-> "none", sent |-> 0, status |-> 0]

\* _requestDetails that files every lookup without an address, the empty
\* string included, under the key None: key = ip_address or None
_requestDetails_SelfKeyForEmpty(c, ip_address, response) ==
    LET key == IF Truthy(ip_address) THEN ip_address ELSE None
    IN  IF ~Contains(c, key)
        THEN IF response.fail
             THEN [cache |-> c, ref |-> key, raw |-> EmptyDict,
                   err |-> "ConnectionError", sent |-> 1, status |-> 0]
             ELSE IF StatusError(response.status) # "none"
             THEN [cache |-> c, ref |-> key, raw |-> EmptyDict,
                   err |-> StatusError(response.status),
                   sent |-> 1, status |-> response.status]
             ELSE LET c1 == SetItem(c, key, response.body)
                  IN  [cache |-> GetItem(c1, key), ref |-> key,
                       raw |-> c1.map[key],
                       err |-> "none", sent |-> 1, status |-> response.status]
        ELSE [cache |-> GetItem(c, key), ref |-> key, raw |-> c.map[key],
              err |-> "none", sent |-> 0, status |-> 0]

\* _requestDetails without the membership test: every call asks the API
_requestDetails_AlwaysRequests(c, ip_address, response) ==
    IF response.fail
    THEN [cache |-> c, ref |-> ip_address, raw |-> EmptyDict,
          err |-> "ConnectionError", sent |-> 1, status |-> 0]
    ELSE IF StatusError(response.status) # "none"
    THEN [cache |-> c, ref |-> ip_address, raw |-> EmptyDict,
          err |-> StatusError(response.status),
          sent |-> 1, status |-> response.status]
    ELSE LET c1 == SetItem(c, ip_address, response.body)
         IN  [cache |-> GetItem(c1, ip_address), ref |-> ip_address,
              raw |-> c1.map[ip_address],
              err |-> "none", sent |-> 1, status |-> response.status]

\* _requestDetails(ip_address) on cache c when the transport, if asked, answers
\* with response: the cache afterwards, the exception, the number of requests
\* sent, the status seen, and the mapping returned: raw is its content and ref
\* the cache key whose stored mapping it is (cache[ip_address] is returned
\* itself, not a copy).
_requestDetails(c, ip_address, response) ==
    IF ~Contains(c, ip_address)
    THEN IF response.fail
         THEN [cache |-> c, ref |-> ip_address, raw |-> EmptyDict,
               err |-> "ConnectionError", sent |-> 1, status |-> 0]
         ELSE IF StatusError(response.status) # "none"
         THEN [cache |-> c, ref |-> ip_address, raw |-> EmptyDict,
               err |-> StatusError(response.status),
               sent |-> 1, status |-> response.status]
         ELSE LET c1 == SetItem(c, ip_address, response.body)
              IN  [cache |-> GetItem(c1, ip_address), ref |-> ip_address,
                   raw |-> c1.map[ip_address],
                   err |-> "none", sent |-> 1, status |-> response.status]
    ELSE [cache |-> GetItem(c, ip_address), ref |-> ip_address,
          raw |-> c.map[ip_address],
          err |-> "none", sent |-> 0, status |-> 0]

(***************************************************************************)
(* Inputs: lookup keys, country tables, API responses                      *)
(***************************************************************************)
IP_A == <<"8", ".", "8", ".", "8", ".", "8">>
IP_B == <<"1", ".", "1", ".", "1", ".", "1">>

\* ip_address arguments: none given, the empty string, two literal addresses
Keys == {None, Str(<<>>), Str(IP_A), Str(IP_B)}

US == Str(<<"U", "S">>)
IN_ == Str(<<"I", "N">>)
ZZ == Str(<<"Z", "Z">>)
UnitedStates == Str(<<"U", "n", "i", "t", "e", "d", " ", "S", "t", "a", "t", "e", "s">>)
India == Str(<<"I", "n", "d", "i", "a">>)

\* contents of the countries file: code -> name
Tables ==
    {[c \in {} |-> None],
     [c \in {US} |-> UnitedStates],
     [c \in {US, IN_} |-> IF c = US THEN UnitedStates ELSE India]}

DefaultTable == [c \in {US, IN_} |-> IF c = US THEN UnitedStates ELSE India]

DerivedKeys == {"country_name", "latitude", "longitude"}

\* response bodies of the lookup behaviours
BodyGood == [f \in {"ip", "country", "loc"} |->
                CASE f = "ip" -> Str(IP_A)
                  [] f = "country" -> US
                  [] f = "loc" -> Str(<<"1", ",", "4">>)]
\* a body that itself has fields named like the derived ones
BodyOwn == [f \in {"country", "loc", "country_name", "latitude"} |->
                CASE f = "country" -> US
                  [] f = "loc" -> Str(<<"1", ",", "4">>)
                  [] f = "country_name" -> Str(<<"X">>)
                  [] f = "latitude" -> Str(<<"9">>)]
\* a body whose loc is a JSON number
BodyNumLoc == [f \in {"ip", "loc"} |->
                CASE f = "ip" -> Str(IP_B)
                  [] f = "loc" -> Num(5)]

Bodies == {BodyGood, BodyOwn, BodyNumLoc}

\* what requests.get can produce: a transport failure, or a status with a body
Responses ==
    {[fail |-> TRUE, status |-> 0, body |-> EmptyDict]}
    \cup {[fail |-> FALSE, status |-> st, body |-> EmptyDict] : st \in {429, 404, 500}}
    \cup {[fail |-> FALSE, status |-> 200, body |-> b] : b \in Bodies}

\* the answers the transport can give to a call: it is asked only on a miss
Transport(c, ip_address) ==
    IF Contains(c, ip_address)
    THEN {[fail |-> FALSE, status |-> 0, body |-> EmptyDict]}
    ELSE Responses

(***************************************************************************)
(* Lookup behaviours: getDetails calls and the passage of time             *)
(***************************************************************************)
NoCall == [seq |-> 0, key |-> None, hit |-> FALSE, sent |-> 0, status |-> 0,
           err |-> "init", result |-> EmptyDict]

Pending == [dict |-> EmptyDict, err |-> "pending"]

\* Handler(cache=<an empty cache of capacity MaxSize>)
Init ==
    /\ cache = EmptyCache
    /\ fetched = [k \in {} |-> EmptyDict]
    /\ last = NoCall
    /\ countries = DefaultTable
    /\ raw_details = EmptyDict
    /\ details = Pending

\* getDetails(ip_address). raw_details is the very mapping the cache holds, so
\* the item assignments of the enrichment land in the stored entry.
getDetails(ip_address) ==
    \E response \in Transport(cache, ip_address) :
        LET r == _requestDetails(cache, ip_address, response)
            e == enrich(r.raw, countries)
        IN  /\ cache' = IF r.err # "none"
                        THEN r.cache
                        ELSE [r.cache EXCEPT !.map[r.ref] = e.dict]
            /\ fetched' = [k \in DOMAIN r.cache.map |->
                              IF k = r.ref /\ r.sent = 1 THEN response.body
                              ELSE fetched[k]]
            /\ last' = [seq    |-> 1 - last.seq,
                        key    |-> ip_address,
                        hit    |-> Contains(cache, ip_address),
                        sent   |-> r.sent,
                        status |-> r.status,
                        err    |-> IF r.err # "none" THEN r.err ELSE e.err,
                        result |-> IF r.err = "none" /\ e.err = "none"
                                   THEN e.dict ELSE EmptyDict]
            /\ UNCHANGED <<countries, raw_details, details>>

\* Time passes and the oldest entry outlives its time-to-live.
Expire ==
    /\ cache.fifo # <<>>
    /\ cache' = Drop(cache, Head(cache.fifo))
    /\ fetched' = [k \in DOMAIN fetched \ {Head(cache.fifo)} |-> fetched[k]]
    /\ UNCHANGED <<last, countries, raw_details, details>>

Next ==
    \/ \E ip_address \in Keys : getDetails(ip_address)
    \/ Expire

Spec == Init /\ [][Next]_vars

(***************************************************************************)
(* Enrichment behaviours: the enrichment of getDetails applied once to a   *)
(* raw mapping, for every country table and every shape of country and loc *)
(***************************************************************************)
Chars == {"1", "4", ","}

Strings(n) == UNION {[1..m -> Chars] : m \in 0..n}

Absent == [t |-> "absent"]

CountryValues == {Absent, None, US, IN_, ZZ, Num(7), List(1)}

LocValues ==
    {Absent, None, Num(0), Num(5), List(0), List(2)}
    \cup {Str(s) : s \in Strings(MaxLen)}

OwnValues == {Absent, Str(<<"X">>)}

\* the mapping with an ip and those of the other four fields that are not Absent
MakeRaw(country, loc, own_name, own_lat) ==
    LET all == [f \in {"ip", "country", "loc", "country_name", "latitude"} |->
                   CASE f = "ip" -> Str(IP_A)
                     [] f = "country" -> country
                     [] f = "loc" -> loc
                     [] f = "country_name" -> own_name
                     [] f = "latitude" -> own_lat]
    IN  [f \in {g \in DOMAIN all : all[g] # Absent} |-> all[f]]

RawInputs ==
    {MakeRaw(c, l, n, la) :
        c \in CountryValues, l \in LocValues, n \in OwnValues, la \in OwnValues}

InitEnrich ==
    /\ cache = EmptyCache
    /\ fetched = [k \in {} |-> EmptyDict]
    /\ last = NoCall
    /\ countries \in Tables
    /\ raw_details \in RawInputs
    /\ details = Pending

Enrich ==
    /\ details = Pending
    /\ details' = enrich(raw_details, countries)
    /\ UNCHANGED <<cache, fetched, last, countries, raw_details>>

NextEnrich == Enrich

SpecEnrich == InitEnrich /\ [][NextEnrich]_vars

(***************************************************************************)
(* Properties                                                              *)
(***************************************************************************)
\* the step is a getDetails call
IsCall == last'.seq # last.seq

\* loc is a string with exactly one comma, with text on both sides of it
WellFormedLoc(loc) ==
    /\ loc.t = "str"
    /\ Cardinality({i \in 1..Len(loc.v) : loc.v[i] = ","}) = 1
    /\ loc.v[1] # ","
    /\ loc.v[Len(loc.v)] # ","

CommaAt(s) == CHOOSE i \in 1..Len(s) : s[i] = ","

\* C1: every stored cache entry is the raw response that was fetched for its
\* key: the enrichment of getDetails never changes a stored entry.
C1_CacheHoldsRawResponse ==
    \A k \in DOMAIN cache.map : cache.map[k] = fetched[k]

\* C2: when getDetails(k) has succeeded and is called again while the entry is
\* still in the cache, the second call sends no request, so the two calls
\* together send at most one.
C2_SecondCallServedFromCache ==
    [][(/\ IsCall
        /\ last.err = "none"
        /\ last'.key = last.key
        /\ Contains(cache, last.key))
       => (last'.sent = 0 /\ last.sent + last'.sent <= 1)]_vars

C2_Witness ==
    /\ last.key = None
    /\ last.hit
    /\ last.sent = 0
    /\ last.err = "none"

\* C3: a call answered with status 429 fails with RequestQuotaExceededError,
\* returns nothing, leaves the cache as it was and without an entry for k; the
\* next call for k sends a request again.
C3_QuotaLeavesCacheUnchanged ==
    [][/\ (IsCall /\ last'.status = 429)
           => /\ last'.err = "RequestQuotaExceededError"
              /\ last'.result = EmptyDict
              /\ cache' = cache
              /\ ~Contains(cache', last'.key)
       /\ (IsCall /\ last.status = 429 /\ last'.key = last.key)
           => last'.sent = 1]_vars

C3_Witness ==
    /\ last.status = 429
    /\ last.err = "RequestQuotaExceededError"
    /\ ~Contains(cache, last.key)
    /\ cache.lru # <<>>

\* the call touches the no-address key or j is the no-address key
AcrossSelf(j, k) == j # k /\ (j = None \/ k = None)

\* C4 as stated: a call for one key never creates, replaces or removes the entry
\* of the no-address key, and a call with no address never creates, replaces
\* or removes the entry of a literal address.
C4_OtherKeyNeverTouched ==
    [][IsCall =>
        \A j \in Keys :
            AcrossSelf(j, last'.key) =>
                /\ Contains(cache', j) <=> Contains(cache, j)
                /\ Contains(cache, j) => cache'.map[j] = cache.map[j]]_vars

\* C4 as amended: such a call never creates or replaces the other entry, and
\* removes it only when it inserts into a full cache and the other entry is
\* the least recently used one.
C4_OtherKeyOnlyEvicted ==
    [][IsCall =>
        \A j \in Keys :
            AcrossSelf(j, last'.key) =>
                /\ Contains(cache', j)
                     => (Contains(cache, j) /\ cache'.map[j] = cache.map[j])
                /\ (Contains(cache, j) /\ ~Contains(cache', j))
                     => /\ ~last'.hit
                        /\ last'.status = 200
                        /\ Cardinality(DOMAIN cache.map) = MaxSize
                        /\ j = Head(cache.lru)]_vars

C4_Witness ==
    /\ last.key = Str(IP_A)
    /\ last.sent = 1
    /\ last.err = "none"
    /\ Contains(cache, None)
    /\ Contains(cache, Str(IP_A))
    /\ cache.map[None] # cache.map[Str(IP_A)]

\* C5 as stated: the returned record holds every field of the raw response
\* with its original value, and the three derived keys.
C5_AllFieldsPreserved ==
    details.err = "none" =>
        /\ \A f \in DOMAIN raw_details :
              f \in DOMAIN details.dict /\ details.dict[f] = raw_details[f]
        /\ DerivedKeys \subseteq DOMAIN details.dict

\* C5 as amended: the returned record holds every field of the raw response
\* that is not named country_name, latitude or longitude with its original
\* value, and exactly the three derived keys besides; these hold the derived
\* values, also when the raw response had fields of those names.
C5_OtherFieldsPreserved ==
    details.err = "none" =>
        /\ DOMAIN details.dict = DOMAIN raw_details \cup DerivedKeys
        /\ \A f \in DOMAIN raw_details \ DerivedKeys :
              details.dict[f] = raw_details[f]
        /\ details.dict["country_name"] = country_name(raw_details, countries).name
        /\ details.dict["latitude"] = _read_coords(DictGet(raw_details, "loc")).lat
        /\ details.dict["longitude"] = _read_coords(DictGet(raw_details, "loc")).lon

C5_Witness ==
    /\ details.err = "none"
    /\ "country_name" \in DOMAIN raw_details
    /\ "latitude" \in DOMAIN raw_details
    /\ details.dict["country_name"] = UnitedStates
    /\ details.dict["latitude"] = Str(<<"1">>)
    /\ details.dict["loc"] = Str(<<"1", ",", "4">>)
    /\ details.dict["ip"] = raw_details["ip"]

\* C6: for every loc (with a country the table can be asked for) enrichment
\* does not fail, and latitude and longitude are the text before and after
\* the comma when loc is a string with exactly one comma between two
\* non-empty parts, and both absent otherwise.
C6_CoordsForEveryLoc ==
    (details # Pending /\ Hashable(DictGet(raw_details, "country"))) =>
        /\ details.err = "none"
        /\ LET loc == DictGet(raw_details, "loc")
           IN  IF WellFormedLoc(loc)
               THEN /\ details.dict["latitude"] =
                          Str(SubSeq(loc.v, 1, CommaAt(loc.v) - 1))
                    /\ details.dict["longitude"] =
                          Str(SubSeq(loc.v, CommaAt(loc.v) + 1, Len(loc.v)))
               ELSE /\ details.dict["latitude"] = None
                    /\ details.dict["longitude"] = None

\* C7: country_name of the returned record is the table's name for the raw
\* country when the field is present and in the table, and None otherwise.
C7_CountryName ==
    details.err = "none" =>
        details.dict["country_name"] =
            IF /\ "country" \in DOMAIN raw_details
               /\ raw_details["country"] \in DOMAIN countries
            THEN countries[raw_details["country"]]
            ELSE None

C7_Witness ==
    /\ details.err = "none"
    /\ DictGet(raw_details, "country") = IN_
    /\ details.dict["country_name"] = India

\* C8: a call served from the cache returns the stored mapping as it is (the
\* second enrichment changes nothing), equal to what the preceding successful
\* call for the same key returned, and enriching the returned record again
\* yields it again.
C8_EnrichmentIdempotent ==
    [][(IsCall /\ last'.hit /\ last'.err = "none") =>
        /\ last'.result = cache.map[last'.key]
        /\ enrich(last'.result, countries).dict = last'.result
        /\ (last.key = last'.key /\ last.err = "none")
              => last'.result = last.result]_vars

C8_Witness ==
    /\ last.hit
    /\ last.err = "none"
    /\ last.result["latitude"] = Str(<<"1">>)
    /\ last.result["longitude"] = Str(<<"4">>)
    /\ last.result["country_name"] = UnitedStates

\* C9: a call answered with an error status other than 429, or whose
\* transport fails, raises the HTTP or transport error, sends exactly one
\* request, returns nothing and leaves the cache exactly as it was.
C9_ErrorLeavesCacheUnchanged ==
    [][(/\ IsCall
        /\ last'.sent = 1
        /\ \/ last'.status = 0
           \/ (last'.status >= 400 /\ last'.status < 600 /\ last'.status # 429))
       => /\ last'.err = (IF last'.status = 0 THEN "ConnectionError" ELSE "HTTPError")
          /\ last'.result = EmptyDict
          /\ cache' = cache
          /\ fetched' = fetched]_vars

C9_Witness ==
    /\ last.status = 500
    /\ last.err = "HTTPError"
    /\ last.sent = 1
    /\ cache.lru # <<>>

====
